---- MODULE Spec2Model ----
(***************************************************************************)
(* Verification model of the plinto identity platform.                     *)
(*                                                                         *)
(*   Spec           authentication and session service                     *)
(*                  (app/services/auth_service.py, app/auth/router.py)     *)
(*   RaceSpec       refresh_tokens calls running concurrently              *)
(*   ResetSpec      the password-reset flow beside live sessions           *)
(*   AuditSpec      hash-chained audit log (app/core/audit_logger.py)      *)
(*   InviteSpec     organization invitations (routers/v1/invitations.py)   *)
(*   ScimSpec       SCIM provisioning endpoints (routers/v1/scim.py)       *)
(*   PolicySpec     policy administration and evaluation                   *)
(*                  (routers/v1/policies.py)                               *)
(*   SignSpec       sign-up, sign-in and logout with their audit writes    *)
(*   ResetCallSpec  reset_password calls running concurrently              *)
(*   StatusSpec     account status changes beside live tokens              *)
(*   MigrateSpec    Auth0 migration tool                                   *)
(*                  (scripts/migration/auth0_migrate.py);                  *)
(*   MigrateLiveSpec  the same with weak fairness of its steps             *)
(*   LimitSpec      fixed-window rate limiter of the sign-up endpoint      *)
(*                                                                         *)
(* The relational store and the key-value store are state variables; every *)
(* handler is one action, except refresh_tokens, log_event, reset_password *)
(* and update_policy, which are split where concurrent requests can        *)
(* interleave.                                                             *)
(***************************************************************************)
EXTENDS Integers, Sequences, FiniteSets, TLC

\* ------------------------------------------------------------------ bounds
MaxJti == 6
MaxSessions == 1
MaxResetTokens == 1
MaxEntries == 2
MaxClock == 2
MaxInvitations == 1
MaxNow == 3
MaxExpiresIn == 1
MaxScimUsers == 2
MaxDeleteCalls == 2
MaxPolicies == 2
MaxUpdates == 2
MaxChanges == 3
MaxLogins == 2
MaxSourceUsers == 2
PageSize == 1
MaxPage == 3
MaxTotal == 3
MaxAttempts == 7
MaxLimiterTime == 3
SignupWindow == 2
SignupLimit == 5

\* ------------------------------------------------------- authentication state
VARIABLES
    users,          \* relational store: users table, by email
    sessions,       \* relational store: sessions table, a sequence of rows
    authAudit,      \* relational store: committed audit events {<<event_type, user>>}
    blacklist,      \* key-value store: the keys "blacklist:<x>" that are set
    sessionCache,   \* key-value store: the keys of the session store
    resetTokens,    \* key-value store: "reset_token:<k>" -> email
    issued,         \* tokens handed to clients so far
    nextJti,        \* secrets.token_urlsafe: next unused token id
    nextFamily,     \* secrets.token_urlsafe: next unused family id
    nextReset,      \* next unused reset token
    rcall,          \* per worker: the refresh_tokens call in flight
    resp,           \* the response of the handler that returned last
    owner,          \* history: jti -> the session row it was issued for
    rotations,      \* history: refresh jti -> number of successful rotations of it
    origFamily,     \* history: session row -> the family of its first refresh token
    rotCount,       \* history: session row -> undisturbed successful rotations
    signedOut,      \* history: access jtis for which POST /signout returned 200
    resetSessions,  \* history: session rows that existed when a password reset succeeded
    cacheLost       \* history: the key-value store lost its state at least once

authVars == <<users, sessions, authAudit, blacklist, sessionCache, resetTokens,
              issued, nextJti, nextFamily, nextReset, rcall, resp, owner,
              rotations, origFamily, rotCount, signedOut, resetSessions, cacheLost>>

Users == {"u1"}
Emails == Users \cup {"nobody"}
Passwords == {"pw1", "pw2"}
Workers == {"w1", "w2"}

None == [none |-> TRUE]
NoTok == [type |-> "none", jti |-> 0, family |-> 0, sub |-> "nobody"]

\* passlib bcrypt: the hash is a function of the password that verify inverts
hash_password(p) == <<"bcrypt", p>>
verify_password(p, h) == h = hash_password(p)

\* jwt.encode of an access token payload (create_access_token)
create_access_token(user_id, jti) ==
    [type |-> "access", jti |-> jti, family |-> 0, sub |-> user_id]

\* faulty variant: the family argument is ignored and every token starts a new family
create_refresh_token_fresh_family(user_id, jti, family, fresh) ==
    [type |-> "refresh", jti |-> jti, family |-> fresh + 100, sub |-> user_id]

\* jwt.encode of a refresh token payload; a token without a family starts one
create_refresh_token(user_id, jti, family, fresh) ==
    [type |-> "refresh", jti |-> jti,
     family |-> IF family # 0 THEN family ELSE fresh, sub |-> user_id]

\* the two key shapes written under "blacklist:": by token id, by raw token text.
\* An encoded token never equals its own jti, so the two never coincide.
BlKeyJti(jti) == <<"jti", jti>>
BlKeyToken(tok) == <<"token", tok.jti>>
\* str() of the ids the session store is keyed by: a session row's id, a user's
\* id, or the id of a row not flushed yet
RowId(sid) == <<"row", sid, "">>
UserId(u) == <<"user", 0, u>>
UnsetId == <<"None", 0, "">>
SessionKey(id) == <<"session", id>>

\* verify_token: decode, type check, then the blacklist lookup by jti
verify_token(tok, token_type, bl) ==
    IF tok.type # token_type THEN None
    ELSE IF BlKeyJti(tok.jti) \in bl THEN None
    ELSE tok

\* authenticate_user's decision, in the order the checks are made
authenticate_user(email, password) ==
    IF email \notin Users THEN "not_found"
    ELSE IF ~users[email].is_active THEN "inactive"
    ELSE IF users[email].is_suspended THEN "suspended"
    ELSE IF ~verify_password(password, users[email].password_hash) THEN "bad_password"
    ELSE "ok"

SessionIds == 1..Len(sessions)
SessionsOf(u) == {s \in SessionIds : sessions[s].user_id = u}
OwnerOf(tok) == IF tok.jti = 0 THEN 0 ELSE owner[tok.jti]
RecordedInactive(tok) == OwnerOf(tok) # 0 /\ ~sessions[OwnerOf(tok)].is_active
FamilyRows(family) == {s \in SessionIds : sessions[s].refresh_token_family = family}

Response(op, tok, status) ==
    [op |-> op, jti |-> tok.jti, type |-> tok.type, status |-> status,
     replay |-> FALSE, clean |-> FALSE, inactive |-> FALSE,
     familyActive |-> FALSE, lost |-> cacheLost]

\* another handler changed the stores while a refresh_tokens call was in flight
Disturb(w) ==
    [v \in Workers |->
        IF v # w /\ rcall[v].pc # "idle"
        THEN [rcall[v] EXCEPT !.disturbed = TRUE] ELSE rcall[v]]

IdleCall == [pc |-> "idle", tok |-> NoTok, sid |-> 0, replay |-> FALSE,
             current |-> FALSE, disturbed |-> FALSE]

AuthHistoryUnchanged ==
    UNCHANGED <<owner, rotations, origFamily, rotCount, signedOut, resetSessions, cacheLost>>

AuthInit ==
    /\ users \in [Users -> [is_active : BOOLEAN, is_suspended : BOOLEAN,
                            password_hash : {hash_password("pw1")}]]
    /\ sessions = <<>>
    /\ authAudit = {}
    /\ blacklist = {}
    /\ sessionCache = {}
    /\ resetTokens = {}
    /\ issued = {}
    /\ nextJti = 1
    /\ nextFamily = 1
    /\ nextReset = 1
    /\ rcall = [w \in Workers |-> IdleCall]
    /\ cacheLost = FALSE
    /\ resp = Response("none", NoTok, 0)
    /\ owner = [j \in 1..MaxJti |-> 0]
    /\ rotations = [j \in 1..MaxJti |-> 0]
    /\ origFamily = <<>>
    /\ rotCount = <<>>
    /\ signedOut = {}
    /\ resetSessions = {}

\* ------------------------------------------------------------ handlers

\* create_session: mint both tokens, add the row, write the session-store entry.
\* str(session.id) is read before the row is flushed, when the id default has
\* not been applied yet, so the entry is stored under the key of no row.
create_session(u) ==
    LET access == create_access_token(u, nextJti)
        refresh == create_refresh_token(u, nextJti + 1, 0, nextFamily)
        sid == Len(sessions) + 1
        row == [user_id |-> u,
                access_token_jti |-> access.jti,
                refresh_token_jti |-> refresh.jti,
                refresh_token_family |-> refresh.family,
                is_active |-> TRUE,
                revoked_reason |-> "none"]
    IN  /\ sessions' = Append(sessions, row)
        /\ sessionCache' = sessionCache \cup {SessionKey(UnsetId)}
        /\ issued' = issued \cup {access, refresh}
        /\ nextJti' = nextJti + 2
        /\ nextFamily' = nextFamily + 1
        /\ owner' = [owner EXCEPT ![access.jti] = sid, ![refresh.jti] = sid]
        /\ origFamily' = Append(origFamily, refresh.family)
        /\ rotCount' = Append(rotCount, 0)
        /\ resp' = Response("signin", NoTok, 200)

\* POST /signin: rate limit, authenticate_user, create_session.
\* The limiter's window lives in the key-value store; its verdict is an input here.
\* A login_failed entry is added to the request's transaction, which get_db
\* rolls back when the handler raises 401; login_success is committed.
Signin(email, password) ==
    \E allowed \in BOOLEAN :
        IF ~allowed
        THEN /\ resp' = Response("signin", NoTok, 429)
             /\ UNCHANGED <<users, sessions, authAudit, blacklist, sessionCache,
                            resetTokens, issued, nextJti, nextFamily, nextReset, rcall>>
             /\ AuthHistoryUnchanged
        ELSE IF authenticate_user(email, password) # "ok"
        THEN /\ resp' = Response("signin", NoTok, 401)
             /\ UNCHANGED <<users, sessions, authAudit, blacklist, sessionCache,
                            resetTokens, issued, nextJti, nextFamily, nextReset, rcall>>
             /\ AuthHistoryUnchanged
        ELSE /\ nextJti + 1 <= MaxJti
             /\ Len(sessions) < MaxSessions
             /\ authAudit' = authAudit \cup {<<"login_success", email>>}
             /\ create_session(email)
             /\ UNCHANGED <<users, blacklist, resetTokens, nextReset, rcall,
                            rotations, signedOut, resetSessions, cacheLost>>

\* POST /signout (router): delete the session-store entry keyed by the user id,
\* blacklist under the raw token text, answer 200.
Signout(tok) ==
    /\ sessionCache' = sessionCache \ {SessionKey(UserId(tok.sub))}
    /\ blacklist' = blacklist \cup {BlKeyToken(tok)}
    /\ signedOut' = IF tok.type = "access" THEN signedOut \cup {tok.jti} ELSE signedOut
    /\ resp' = Response("signout", NoTok, 200)
    /\ UNCHANGED <<users, sessions, authAudit, resetTokens, issued, nextJti,
                   nextFamily, nextReset, rcall, owner, rotations, origFamily,
                   rotCount, resetSessions, cacheLost>>

\* GET /me: verify_token, then the user row
Me(tok) ==
    LET payload == verify_token(tok, "access", blacklist)
        status == IF payload = None THEN 401
                  ELSE IF ~users[payload.sub].is_active THEN 401
                  ELSE 200
    IN  /\ resp' = [Response("me", tok, status) EXCEPT
                        !.inactive = RecordedInactive(tok)]
        /\ UNCHANGED <<users, sessions, authAudit, blacklist, sessionCache,
                       resetTokens, issued, nextJti, nextFamily, nextReset, rcall>>
        /\ AuthHistoryUnchanged

\* revoke_token_family: every row of the family goes inactive and both of its
\* current token ids are blacklisted
revoke_token_family_rows(family) ==
    [s \in SessionIds |->
        IF sessions[s].refresh_token_family = family
        THEN [sessions[s] EXCEPT !.is_active = FALSE,
                                 !.revoked_reason = "family_revoked_security"]
        ELSE sessions[s]]

revoke_token_family_keys(family) ==
    UNION {{BlKeyJti(sessions[s].access_token_jti),
            BlKeyJti(sessions[s].refresh_token_jti)} : s \in FamilyRows(family)}

\* refresh_tokens, entry: the client presents a token it holds
RefreshBegin(w, tok) ==
    /\ rcall[w].pc = "idle"
    /\ rcall' = [rcall EXCEPT ![w] =
            [pc |-> "verify", tok |-> tok, sid |-> 0,
             replay |-> (tok.type = "refresh" /\ rotations[tok.jti] > 0),
             current |-> /\ tok.type = "refresh"
                         /\ BlKeyJti(tok.jti) \notin blacklist
                         /\ OwnerOf(tok) # 0
                         /\ sessions[OwnerOf(tok)].is_active
                         /\ sessions[OwnerOf(tok)].refresh_token_jti = tok.jti
                         /\ users[tok.sub].is_active,
             disturbed |-> FALSE]]
    /\ UNCHANGED <<users, sessions, authAudit, blacklist, sessionCache, resetTokens,
                   issued, nextJti, nextFamily, nextReset, resp>>
    /\ AuthHistoryUnchanged

RefreshResponse(w, status) ==
    [Response("refresh", rcall[w].tok, status) EXCEPT
        !.replay = rcall[w].replay,
        !.clean = (rcall[w].current /\ ~rcall[w].disturbed),
        !.inactive = RecordedInactive(rcall[w].tok)]

\* refresh_tokens, lines 327-330: verify_token(refresh_token, "refresh")
RefreshVerify(w) ==
    /\ rcall[w].pc = "verify"
    /\ IF verify_token(rcall[w].tok, "refresh", blacklist) = None
       THEN /\ rcall' = [rcall EXCEPT ![w] = IdleCall]
            /\ resp' = [RefreshResponse(w, 401) EXCEPT
                           !.familyActive =
                               \E s \in FamilyRows(rcall[w].tok.family) :
                                   sessions[s].is_active]
       ELSE /\ rcall' = [rcall EXCEPT ![w].pc = "lookup"]
            /\ UNCHANGED resp
    /\ UNCHANGED <<users, sessions, authAudit, blacklist, sessionCache, resetTokens,
                   issued, nextJti, nextFamily, nextReset>>
    /\ AuthHistoryUnchanged

\* refresh_tokens, lines 332-348: the active row whose refresh jti matches;
\* when there is none, the family is revoked and the call returns None
RefreshLookup(w) ==
    /\ rcall[w].pc = "lookup"
    /\ LET tok == rcall[w].tok
           found == {s \in SessionIds : /\ sessions[s].refresh_token_jti = tok.jti
                                        /\ sessions[s].is_active}
       IN  IF found = {}
           THEN /\ sessions' = revoke_token_family_rows(tok.family)
                /\ blacklist' = blacklist \cup revoke_token_family_keys(tok.family)
                /\ rcall' = [Disturb(w) EXCEPT ![w] = IdleCall]
                /\ resp' = [RefreshResponse(w, 401) EXCEPT
                               !.inactive = OwnerOf(tok) # 0
                                            /\ ~sessions'[OwnerOf(tok)].is_active]
           ELSE /\ rcall' = [rcall EXCEPT ![w].pc = "commit",
                                          ![w].sid = CHOOSE s \in found : TRUE]
                /\ UNCHANGED <<sessions, blacklist, resp>>
    /\ UNCHANGED <<users, authAudit, sessionCache, resetTokens, issued, nextJti,
                   nextFamily, nextReset>>
    /\ AuthHistoryUnchanged

\* refresh_tokens, lines 350-384: the user row, the new pair (same family), the
\* row's two token ids, the blacklist entry for the consumed jti, commit.
\* The UPDATE writes the columns this call assigned and no others.
RefreshCommit(w) ==
    /\ rcall[w].pc = "commit"
    /\ LET tok == rcall[w].tok
           sid == rcall[w].sid
       IN  IF ~users[tok.sub].is_active
           THEN /\ rcall' = [rcall EXCEPT ![w] = IdleCall]
                /\ resp' = RefreshResponse(w, 401)
                /\ UNCHANGED <<sessions, blacklist, issued, nextJti, owner,
                               rotations, rotCount>>
           ELSE /\ nextJti + 1 <= MaxJti
                /\ LET access == create_access_token(tok.sub, nextJti)
                       refresh == create_refresh_token(tok.sub, nextJti + 1,
                                                       tok.family, nextFamily)
                   IN  /\ sessions' = [sessions EXCEPT
                               ![sid].access_token_jti = access.jti,
                               ![sid].refresh_token_jti = refresh.jti]
                       /\ blacklist' = blacklist \cup {BlKeyJti(tok.jti)}
                       /\ issued' = issued \cup {access, refresh}
                       /\ owner' = [owner EXCEPT ![access.jti] = sid,
                                                 ![refresh.jti] = sid]
                /\ nextJti' = nextJti + 2
                /\ rotations' = [rotations EXCEPT ![tok.jti] = @ + 1]
                /\ rotCount' = [rotCount EXCEPT ![sid] =
                        IF rcall[w].current /\ ~rcall[w].disturbed THEN @ + 1 ELSE @]
                /\ rcall' = [Disturb(w) EXCEPT ![w] = IdleCall]
                /\ resp' = RefreshResponse(w, 200)
    /\ UNCHANGED <<users, authAudit, sessionCache, resetTokens, nextFamily,
                   nextReset, origFamily, signedOut, resetSessions, cacheLost>>

\* AuthService.logout(session_id, user_id)
Logout(sid, user_id) ==
    IF sid \notin SessionIds \/ sessions[sid].user_id # user_id
    THEN /\ resp' = Response("logout", NoTok, 404)
         /\ UNCHANGED <<users, sessions, authAudit, blacklist, sessionCache,
                        resetTokens, issued, nextJti, nextFamily, nextReset, rcall>>
         /\ AuthHistoryUnchanged
    ELSE /\ sessions' = [sessions EXCEPT ![sid].is_active = FALSE,
                                         ![sid].revoked_reason = "user_logout"]
         /\ blacklist' = blacklist \cup {BlKeyJti(sessions[sid].access_token_jti),
                                         BlKeyJti(sessions[sid].refresh_token_jti)}
         /\ sessionCache' = sessionCache \ {SessionKey(RowId(sid))}
         /\ authAudit' = authAudit \cup {<<"logout", user_id>>}
         /\ rcall' = Disturb("none")
         /\ resp' = Response("logout", NoTok, 200)
         /\ UNCHANGED <<users, resetTokens, issued, nextJti, nextFamily, nextReset>>
         /\ AuthHistoryUnchanged

\* the email service's reset-token issue: a fresh token value kept in the
\* key-value store under "reset_token:<token>", mapping to the email
send_password_reset_email(email) == <<nextReset, email>>

\* POST /forgot-password: rate limit, then the reset email; the answer is the
\* same whether or not the address is registered
ForgotPassword(email) ==
    \E allowed \in BOOLEAN :
        /\ IF allowed
           THEN /\ nextReset <= MaxResetTokens
                /\ resetTokens' = resetTokens \cup {send_password_reset_email(email)}
                /\ nextReset' = nextReset + 1
                /\ resp' = Response("forgot_password", NoTok, 200)
           ELSE /\ resp' = Response("forgot_password", NoTok, 429)
                /\ UNCHANGED <<resetTokens, nextReset>>
        /\ UNCHANGED <<users, sessions, authAudit, blacklist, sessionCache, issued,
                       nextJti, nextFamily, rcall>>
        /\ AuthHistoryUnchanged

\* the session store's delete by key, as reset_password and signout call it
delete_session(cache, id) == cache \ {SessionKey(id)}

\* POST /reset-password. The handler takes the key-value client without awaiting
\* it and uses the synchronous query API on the request's session; where either
\* raises, the generic handler answers 500 and nothing has been written.
ResetPassword(k, new_password) ==
    /\ \E raised \in BOOLEAN :
        LET stored == {e \in Emails : <<k, e>> \in resetTokens}
            email == CHOOSE e \in stored : TRUE
        IN  IF raised
            THEN /\ resp' = Response("reset_password", NoTok, 500)
                 /\ UNCHANGED <<users, sessionCache, resetTokens, resetSessions>>
            ELSE IF stored = {}
            THEN /\ resp' = Response("reset_password", NoTok, 400)
                 /\ UNCHANGED <<users, sessionCache, resetTokens, resetSessions>>
            ELSE IF email \notin Users
            THEN /\ resp' = Response("reset_password", NoTok, 404)
                 /\ UNCHANGED <<users, sessionCache, resetTokens, resetSessions>>
            ELSE /\ users' = [users EXCEPT ![email].password_hash =
                                               hash_password(new_password)]
                 /\ sessionCache' = delete_session(sessionCache, UserId(email))
                 /\ resetTokens' = resetTokens \ {<<k, email>>}
                 /\ resetSessions' = resetSessions \cup SessionsOf(email)
                 /\ resp' = Response("reset_password", NoTok, 200)
    /\ UNCHANGED <<sessions, authAudit, blacklist, issued, nextJti, nextFamily,
                   nextReset, rcall, owner, rotations, origFamily, rotCount,
                   signedOut, cacheLost>>

\* the key-value store loses everything it holds
CacheLoss ==
    /\ blacklist' = {}
    /\ sessionCache' = {}
    /\ resetTokens' = {}
    /\ cacheLost' = TRUE
    /\ UNCHANGED <<users, sessions, authAudit, issued, nextJti, nextFamily,
                   nextReset, rcall, resp, owner, rotations, origFamily, rotCount,
                   signedOut, resetSessions>>

\* what clients hold: access tokens go out as bearer credentials, refresh
\* tokens go to the refresh endpoint
AccessTokens == {t \in issued : t.type = "access"}
RefreshTokens == {t \in issued : t.type = "refresh"}

\* sessions and tokens: sign-in, the current-user endpoint, sign-out, logout, and
\* refresh_tokens calls running on the workers W, over a key-value store that
\* may lose its state
SessionNext(W) ==
    \/ \E e \in Emails, p \in Passwords : Signin(e, p)
    \/ \E t \in AccessTokens : Signout(t)
    \/ \E t \in AccessTokens : Me(t)
    \/ \E w \in W, t \in RefreshTokens : RefreshBegin(w, t)
    \/ \E w \in W : RefreshVerify(w)
    \/ \E w \in W : RefreshLookup(w)
    \/ \E w \in W : RefreshCommit(w)
    \/ \E s \in 1..MaxSessions, u \in Users : Logout(s, u)
    \/ CacheLoss

\* concurrent refresh_tokens calls on two workers
RaceNext ==
    \/ \E e \in Emails, p \in Passwords : Signin(e, p)
    \/ \E w \in Workers, t \in RefreshTokens : RefreshBegin(w, t)
    \/ \E w \in Workers : RefreshVerify(w)
    \/ \E w \in Workers : RefreshLookup(w)
    \/ \E w \in Workers : RefreshCommit(w)

\* the password-reset flow beside live sessions
ResetNext ==
    \/ \E e \in Emails, p \in Passwords : Signin(e, p)
    \/ \E e \in Emails : ForgotPassword(e)
    \/ \E k \in 1..MaxResetTokens, p \in Passwords : ResetPassword(k, p)
    \/ \E t \in AccessTokens : Me(t)
    \/ \E t \in RefreshTokens : RefreshBegin("w1", t)
    \/ RefreshVerify("w1")
    \/ RefreshLookup("w1")
    \/ RefreshCommit("w1")

\* an administrator or operator changes the account status columns; no handler
\* of the service writes them
SetUserStatus(u, is_active, is_suspended) ==
    /\ users' = [users EXCEPT ![u].is_active = is_active,
                              ![u].is_suspended = is_suspended]
    /\ resp' = Response("set_status", NoTok, 200)
    /\ UNCHANGED <<sessions, authAudit, blacklist, sessionCache, resetTokens, issued,
                   nextJti, nextFamily, nextReset, rcall>>
    /\ AuthHistoryUnchanged

\* sessions in use while account status changes
StatusNext ==
    \/ \E e \in Emails, p \in Passwords : Signin(e, p)
    \/ \E t \in AccessTokens : Me(t)
    \/ \E t \in RefreshTokens : RefreshBegin("w1", t)
    \/ RefreshVerify("w1")
    \/ RefreshLookup("w1")
    \/ RefreshCommit("w1")
    \/ \E u \in Users, a \in BOOLEAN, b \in BOOLEAN : SetUserStatus(u, a, b)

\* ------------------------------------------------------------ audit log state
VARIABLES
    auditLogs,      \* relational store: audit_logs rows of the tenant, in insert order
    lastHashCache,  \* the shared AuditLogger's _last_hash_cache entry of the tenant
    acall,          \* per request: the log_event call in flight
    clock,          \* wall clock
    nextAuditId,    \* next unused row id
    report,         \* what verify_integrity returned last
    tampered        \* history: id of the row whose event_data was altered, or 0

auditVars == <<auditLogs, lastHashCache, acall, clock, nextAuditId, report, tampered>>

Requests == {"r1", "r2"}
EventData == {"success", "denied"}
NoHash == <<>>
NoTime == [t |-> 0, tz |-> "unset"]

\* datetime.utcnow(): a naive reading of the wall clock
utcnow(c) == [t |-> c, tz |-> ""]

\* the created_at column: timestamp with time zone, filled by now() at insert
server_default_now(c) == [t |-> c, tz |-> "+00:00"]

\* datetime.isoformat(): the offset is printed only for an aware value
isoformat(d) == <<d.t, d.tz>>

\* sha256 over the sorted-key JSON document of the entry
_calculate_hash(audit_log, now) ==
    <<audit_log.event_data, audit_log.previous_hash,
      isoformat(IF audit_log.created_at # NoTime THEN audit_log.created_at ELSE now)>>

\* rows a database session sees: the committed ones and its own
VisibleLogs(txn) == SelectSeq(auditLogs, LAMBDA r : r.txn \in {"committed", txn})

\* ORDER BY created_at: any order of the rows that is sorted by creation time
ByCreatedAt(rows) ==
    {p \in Permutations(1..Len(rows)) :
        \A i, j \in 1..Len(rows) :
            i < j => rows[p[i]].created_at.t <= rows[p[j]].created_at.t}

\* select current_hash ... order by created_at desc limit 1
LastHashes(rows) ==
    IF rows = <<>> THEN {NoHash}
    ELSE {rows[p[Len(rows)]].current_hash : p \in ByCreatedAt(rows)}

\* _get_previous_hash: the cache entry if the logger has one, else the store
PreviousHashes(txn, fresh) ==
    IF ~fresh /\ lastHashCache # <<>> THEN {lastHashCache[1]}
    ELSE LastHashes(VisibleLogs(txn))

IdleLog == [pc |-> "idle", fresh |-> FALSE, id |-> 0, event_data |-> "",
            previous_hash |-> NoHash, current_hash |-> NoHash]

NoReport == [ran |-> FALSE, verified |-> TRUE, total_entries |-> 0,
             broken_links |-> {}, logs |-> <<>>, mutated |-> 0]

AuditInit ==
    /\ auditLogs = <<>>
    /\ lastHashCache = <<>>
    /\ acall = [r \in Requests |-> IdleLog]
    /\ clock = 1
    /\ nextAuditId = 1
    /\ report = NoReport
    /\ tampered = 0

\* log_event up to the flush: read the previous hash, build the entry, hash it.
\* fresh: the logger was made for this call (audit_event), its cache is empty.
LogEvent(r, event_data, fresh) ==
    /\ acall[r].pc = "idle"
    /\ nextAuditId <= MaxEntries
    /\ \E previous_hash \in PreviousHashes(r, fresh) :
         LET audit_log == [event_data |-> event_data, previous_hash |-> previous_hash,
                           created_at |-> NoTime]
         IN /\ acall' = [acall EXCEPT ![r] =
                    [pc |-> "flush", fresh |-> fresh, id |-> nextAuditId,
                     event_data |-> event_data, previous_hash |-> previous_hash,
                     current_hash |-> _calculate_hash(audit_log, utcnow(clock))]]
            /\ lastHashCache' = IF ~fresh /\ lastHashCache = <<>> /\ previous_hash # NoHash
                                THEN <<previous_hash>> ELSE lastHashCache
    /\ nextAuditId' = nextAuditId + 1
    /\ UNCHANGED <<auditLogs, clock, report, tampered>>

\* log_event from the flush on: the row is inserted, created_at filled by the
\* store; when the call resumes, the cache of its logger is updated
Flush(r) ==
    /\ acall[r].pc = "flush"
    /\ auditLogs' = Append(auditLogs,
            [id |-> acall[r].id, event_data |-> acall[r].event_data,
             previous_hash |-> acall[r].previous_hash,
             current_hash |-> acall[r].current_hash,
             created_at |-> server_default_now(clock), txn |-> r])
    /\ lastHashCache' = IF acall[r].fresh THEN lastHashCache
                        ELSE <<acall[r].current_hash>>
    /\ acall' = [acall EXCEPT ![r] = IdleLog]
    /\ UNCHANGED <<clock, nextAuditId, report, tampered>>

OwnRows(r) == {i \in 1..Len(auditLogs) : auditLogs[i].txn = r}

\* get_db: the request ended normally, its session is committed
Commit(r) ==
    /\ acall[r].pc = "idle"
    /\ OwnRows(r) # {}
    /\ auditLogs' = [i \in 1..Len(auditLogs) |->
                        IF auditLogs[i].txn = r
                        THEN [auditLogs[i] EXCEPT !.txn = "committed"]
                        ELSE auditLogs[i]]
    /\ UNCHANGED <<lastHashCache, acall, clock, nextAuditId, report, tampered>>

\* get_db: the request raised, its session is rolled back
Rollback(r) ==
    /\ acall[r].pc = "idle"
    /\ OwnRows(r) # {}
    /\ auditLogs' = SelectSeq(auditLogs, LAMBDA row : row.txn # r)
    /\ UNCHANGED <<lastHashCache, acall, clock, nextAuditId, report, tampered>>

Tick ==
    /\ clock < MaxClock
    /\ clock' = clock + 1
    /\ UNCHANGED <<auditLogs, lastHashCache, acall, nextAuditId, report, tampered>>

\* a stored entry's event_data is altered behind the logger's back
Tamper(i, event_data) ==
    /\ tampered = 0
    /\ i \in 1..Len(auditLogs)
    /\ auditLogs[i].txn = "committed"
    /\ auditLogs[i].event_data # event_data
    /\ auditLogs' = [auditLogs EXCEPT ![i].event_data = event_data]
    /\ tampered' = auditLogs[i].id
    /\ UNCHANGED <<lastHashCache, acall, clock, nextAuditId, report>>

\* faulty variant: the next entry is compared with the recomputed hash, not the stored one
ExpectedPreviousRecalculated(logs, i) == _calculate_hash(logs[i], NoTime)

\* verify_integrity: the hash the next entry's previous_hash is compared with
ExpectedPrevious(logs, i) == logs[i].current_hash

\* verify_integrity: the walk over the entries; positions count from 0
BrokenLinks(logs) ==
    {[position |-> i - 1, type |-> "previous_hash"] :
        i \in {k \in 2..Len(logs) :
                 logs[k].previous_hash # ExpectedPrevious(logs, k - 1)}}
    \cup
    {[position |-> i - 1, type |-> "hash_mismatch"] :
        i \in {k \in 1..Len(logs) :
                 _calculate_hash(logs[k], utcnow(clock)) # logs[k].current_hash}}

VerifyIntegrity ==
    /\ LET rows == VisibleLogs("verify")
       IN \E p \in ByCreatedAt(rows) :
            LET logs == [i \in 1..Len(rows) |-> rows[p[i]]]
                broken_links == BrokenLinks(logs)
            IN report' = [ran |-> TRUE,
                          verified |-> broken_links = {},
                          total_entries |-> Len(logs),
                          broken_links |-> broken_links,
                          logs |-> logs,
                          mutated |-> tampered]
    /\ UNCHANGED <<auditLogs, lastHashCache, acall, clock, nextAuditId, tampered>>

AuditNext ==
    \/ \E r \in Requests, d \in EventData, fresh \in BOOLEAN : LogEvent(r, d, fresh)
    \/ \E r \in Requests : Flush(r)
    \/ \E r \in Requests : Commit(r)
    \/ \E r \in Requests : Rollback(r)
    \/ Tick
    \/ \E i \in 1..MaxEntries, d \in EventData : Tamper(i, d)
    \/ VerifyIntegrity

\* ------------------------------------------------------------ invitation state
VARIABLES
    invitations,    \* relational store: invitations rows; the token of row i is i
    orgMembers,     \* relational store: organization_members rows
    people,         \* relational store: ids of the user accounts
    now,            \* wall clock read by datetime.utcnow()
    iresp,          \* the response of the invitation handler that returned last
    accepts         \* history: token -> number of acceptances that succeeded

inviteVars == <<invitations, orgMembers, people, now, iresp, accepts>>

Orgs == {"o1", "o2"}
Callers == {"alice", "bob"}
Invitees == {"carol"}
RoleNames == {"member", "admin"}
AdminRoles == {"admin", "owner"}
NoUser == ""
Unchanged == 0

\* faulty variant: expired from the expiry instant on
is_expired_at_instant(invitation, t) == t >= invitation.expires_at

\* Invitation.is_expired: strictly after the expiry instant
is_expired(invitation, t) == t > invitation.expires_at

\* faulty variant: the status is not looked at
is_valid_any_status(invitation, t) == ~is_expired(invitation, t)

\* Invitation.is_valid
is_valid(invitation, t) ==
    invitation.status = "pending" /\ ~is_expired(invitation, t)

Tokens == 1..Len(invitations)

IResponse(op, status, caller, org, token, reason) ==
    [op |-> op, status |-> status, token |-> token, reason |-> reason,
     pending |-> token \in Tokens /\ invitations[token].status = "pending",
     expires_at |-> IF token \in Tokens THEN invitations[token].expires_at ELSE 0,
     now |-> now,
     adminThere |-> \E m \in orgMembers :
                        m.user = caller /\ m.org = org /\ m.role \in AdminRoles]

InviteInit ==
    /\ invitations = <<>>
    /\ orgMembers = {[org |-> "o1", user |-> "alice", role |-> "owner"],
                     [org |-> "o2", user |-> "bob", role |-> "admin"]}
    /\ people = Callers
    /\ now = 1
    /\ accepts = <<>>
    /\ iresp = [op |-> "none", status |-> 0, token |-> 0, reason |-> "", pending |-> FALSE, expires_at |-> 0, now |-> 1,
                adminThere |-> FALSE]

\* require_org_admin: the status the dependency answers with, 200 when it passes
require_org_admin(current_user) ==
    LET rows == {m \in orgMembers : m.user = current_user /\ m.role \in AdminRoles}
    IN IF rows = {} THEN 403
       ELSE IF Cardinality(rows) > 1 THEN 500    \* scalar_one_or_none raises
       ELSE 200

Refused(op, caller, org, token) ==
    /\ require_org_admin(caller) # 200
    /\ iresp' = IResponse(op, require_org_admin(caller), caller, org, token, "guard")
    /\ UNCHANGED <<invitations, orgMembers, people, now, accepts>>

\* POST /v1/invitations
CreateInvitation(caller, org, email, role, expires_in) ==
    \/ Refused("create", caller, org, 0)
    \/ /\ require_org_admin(caller) = 200
       /\ Len(invitations) < MaxInvitations
       /\ invitations' = Append(invitations,
              [organization_id |-> org, email |-> email, role_name |-> role,
               status |-> "pending", accepted_by |-> NoUser,
               expires_at |-> now + expires_in])
       /\ accepts' = Append(accepts, 0)
       /\ iresp' = IResponse("create", 201, caller, org, 0, "")
       /\ UNCHANGED <<orgMembers, people, now>>

\* PATCH /v1/invitations/{id}
UpdateInvitation(caller, id, role, expires_at) ==
    \/ Refused("update", caller, IF id \in Tokens THEN invitations[id].organization_id ELSE "", id)
    \/ /\ require_org_admin(caller) = 200
       /\ IF id \notin Tokens
          THEN /\ iresp' = IResponse("update", 404, caller, "", id, "not found")
               /\ UNCHANGED invitations
          ELSE IF invitations[id].status # "pending"
          THEN /\ iresp' = IResponse("update", 400, caller, invitations[id].organization_id,
                                     id, "not pending")
               /\ UNCHANGED invitations
          ELSE /\ invitations' = [invitations EXCEPT
                      ![id].role_name = IF role # "" THEN role ELSE @,
                      ![id].expires_at = IF expires_at # Unchanged THEN expires_at ELSE @]
               /\ iresp' = IResponse("update", 200, caller, invitations[id].organization_id,
                                     id, "")
       /\ UNCHANGED <<orgMembers, people, now, accepts>>

\* POST /v1/invitations/{id}/resend: only the delivery is repeated
ResendInvitation(caller, id) ==
    \/ Refused("resend", caller, IF id \in Tokens THEN invitations[id].organization_id ELSE "", id)
    \/ /\ require_org_admin(caller) = 200
       /\ iresp' = IF id \in Tokens /\ is_valid(invitations[id], now)
                   THEN IResponse("resend", 200, caller, invitations[id].organization_id, id, "")
                   ELSE IResponse("resend", 400, caller, "", id, "not resendable")
       /\ UNCHANGED <<invitations, orgMembers, people, now, accepts>>

\* DELETE /v1/invitations/{id}
RevokeInvitation(caller, id) ==
    \/ Refused("revoke", caller, IF id \in Tokens THEN invitations[id].organization_id ELSE "", id)
    \/ /\ require_org_admin(caller) = 200
       /\ IF id \in Tokens /\ invitations[id].status = "pending"
          THEN /\ invitations' = [invitations EXCEPT ![id].status = "revoked"]
               /\ iresp' = IResponse("revoke", 204, caller, invitations[id].organization_id,
                                     id, "")
          ELSE /\ iresp' = IResponse("revoke", 400, caller, "", id, "not revocable")
               /\ UNCHANGED invitations
       /\ UNCHANGED <<orgMembers, people, now, accepts>>

\* POST /v1/invitations/cleanup: pending invitations past their expiry become expired
CleanupExpired(caller) ==
    \/ Refused("cleanup", caller, "", 0)
    \/ /\ require_org_admin(caller) = 200
       /\ invitations' = [i \in Tokens |->
              IF invitations[i].status = "pending" /\ is_expired(invitations[i], now)
              THEN [invitations[i] EXCEPT !.status = "expired"]
              ELSE invitations[i]]
       /\ iresp' = IResponse("cleanup", 200, caller, "", 0, "")
       /\ UNCHANGED <<orgMembers, people, now, accepts>>

\* why the invitation with this token cannot be accepted, "" when it can
Rejection(token) ==
    IF token \notin Tokens THEN "not found"
    ELSE IF is_valid(invitations[token], now) THEN ""
    ELSE IF is_expired(invitations[token], now) THEN "expired"
    ELSE IF invitations[token].status = "accepted" THEN "already accepted"
    ELSE IF invitations[token].status = "revoked" THEN "revoked"
    ELSE "expired"

\* POST /v1/invitations/accept
AcceptInvitation(token, user_id, registers) ==
    LET user == IF user_id \in people THEN user_id ELSE NoUser
        new_user_data == registers /\ user = NoUser
        reason == IF user_id # NoUser /\ user = NoUser THEN "User not found"
                  ELSE IF Rejection(token) # "" THEN Rejection(token)
                  ELSE IF user = NoUser /\ ~new_user_data THEN "no user"
                  ELSE ""
        member == IF user # NoUser THEN user ELSE invitations[token].email
    IN IF reason # ""
       THEN /\ iresp' = IResponse("accept", 400, NoUser, "", token, reason)
            /\ UNCHANGED <<invitations, orgMembers, people, now, accepts>>
       ELSE /\ people' = people \cup {member}
            /\ orgMembers' = orgMembers \cup
                   {[org |-> invitations[token].organization_id, user |-> member,
                     role |-> invitations[token].role_name]}
            /\ invitations' = [invitations EXCEPT ![token].status = "accepted",
                                                  ![token].accepted_by = member]
            /\ accepts' = [accepts EXCEPT ![token] = @ + 1]
            /\ iresp' = IResponse("accept", 200, NoUser,
                                  invitations[token].organization_id, token, "")
            /\ UNCHANGED now

\* GET /v1/invitations/validate/{token}
ValidateInvitationToken(token) ==
    /\ iresp' =
         IF token \notin Tokens THEN IResponse("validate", 404, NoUser, "", token, "not found")
         ELSE IF is_expired(invitations[token], now)
              THEN IResponse("validate", 200, NoUser, "", token, "expired")
         ELSE IF invitations[token].status = "accepted"
              THEN IResponse("validate", 200, NoUser, "", token, "already accepted")
         ELSE IF invitations[token].status = "revoked"
              THEN IResponse("validate", 200, NoUser, "", token, "revoked")
         ELSE IResponse("validate", 200, NoUser, "", token, "valid")
    /\ UNCHANGED <<invitations, orgMembers, people, now, accepts>>

InviteTick ==
    /\ now < MaxNow
    /\ now' = now + 1
    /\ UNCHANGED <<invitations, orgMembers, people, iresp, accepts>>

InviteNext ==
    \/ \E c \in Callers, o \in Orgs, e \in Invitees, d \in 1..MaxExpiresIn :
            CreateInvitation(c, o, e, "member", d)
    \/ \E c \in Callers, i \in 1..MaxInvitations, r \in {"", "admin"}, t \in 0..MaxNow :
            UpdateInvitation(c, i, r, t)
    \/ \E c \in Callers, i \in 1..MaxInvitations : ResendInvitation(c, i)
    \/ \E c \in Callers, i \in 1..MaxInvitations : RevokeInvitation(c, i)
    \/ \E c \in Callers \cup Invitees : CleanupExpired(c)
    \/ \E k \in 1..MaxInvitations, u \in {NoUser, "bob", "ghost"}, g \in BOOLEAN :
            AcceptInvitation(k, u, g)
    \/ \E k \in 1..MaxInvitations : ValidateInvitationToken(k)
    \/ InviteTick

\* ------------------------------------------------------------------ SCIM state
VARIABLES
    scimUsers,      \* relational store: users provisioned through SCIM, with the
                    \* scim_resources row and the membership of each; scim_id of row i is i
    sresp,          \* the response of the SCIM endpoint that answered last
    deleteCalls     \* history: scim_id -> DELETE calls that found the mapping or followed one that did

scimVars == <<scimUsers, sresp, deleteCalls>>

Headers == {"none", "basic", "bearer"}
OrgContexts == Orgs \cup {"none"}
UserNames == {"carol", "dave"}

\* organizations.scim_enabled
scim_enabled(org) == org = "o1"

\* verify_scim_token: the status of the rejection, 200 when the dependency passes
verify_scim_token(authorization, org_id) ==
    IF authorization # "bearer" THEN 401
    ELSE IF org_id = "none" THEN 401
    ELSE IF ~scim_enabled(org_id) THEN 401
    ELSE 200

ScimIds == 1..Len(scimUsers)

\* the scim_resources row joined with its user, for this organization
ScimRow(scim_id, org) ==
    scim_id \in ScimIds /\ scimUsers[scim_id].mapped /\ scimUsers[scim_id].org = org

SResponse(op, status, authorization, org_id, scim_id, ran) ==
    [op |-> op, status |-> status,
     bearer |-> authorization = "bearer",
     enabled |-> org_id \in Orgs /\ scim_enabled(org_id),
     scim_id |-> scim_id,
     ran |-> ran,
     nth |-> IF scim_id \in 1..Len(scimUsers') THEN deleteCalls'[scim_id] ELSE 0,
     user_status |-> IF scim_id \in 1..Len(scimUsers') THEN scimUsers'[scim_id].status
                     ELSE "none"]

ScimInit ==
    /\ scimUsers = <<>>
    /\ deleteCalls = <<>>
    /\ sresp = [op |-> "none", status |-> 0, bearer |-> FALSE, enabled |-> FALSE,
                scim_id |-> 0, ran |-> FALSE, nth |-> 0, user_status |-> "none"]

ScimRejected(op, authorization, org_id) ==
    /\ verify_scim_token(authorization, org_id) # 200
    /\ UNCHANGED <<scimUsers, deleteCalls>>
    /\ sresp' = SResponse(op, 401, authorization, org_id, 0, FALSE)

\* GET /scim/v2/ServiceProviderConfig: no dependency is declared
GetServiceProviderConfig(authorization, org_id) ==
    /\ UNCHANGED <<scimUsers, deleteCalls>>
    /\ sresp' = SResponse("config", 200, authorization, org_id, 0, TRUE)

\* GET /scim/v2/Schemas: no dependency is declared
GetSchemas(authorization, org_id) ==
    /\ UNCHANGED <<scimUsers, deleteCalls>>
    /\ sresp' = SResponse("schemas", 200, authorization, org_id, 0, TRUE)

\* GET /scim/v2/Users and GET /scim/v2/Groups
ListResources(op, authorization, org_id) ==
    \/ ScimRejected(op, authorization, org_id)
    \/ /\ verify_scim_token(authorization, org_id) = 200
       /\ UNCHANGED <<scimUsers, deleteCalls>>
       /\ sresp' = SResponse(op, 200, authorization, org_id, 0, TRUE)

\* GET /scim/v2/Users/{id}
GetScimUser(authorization, org_id, scim_id) ==
    \/ ScimRejected("get", authorization, org_id)
    \/ /\ verify_scim_token(authorization, org_id) = 200
       /\ UNCHANGED <<scimUsers, deleteCalls>>
       /\ sresp' = SResponse("get", IF ScimRow(scim_id, org_id) THEN 200 ELSE 404,
                             authorization, org_id, scim_id, TRUE)

\* POST /scim/v2/Users
CreateScimUser(authorization, org_id, userName, active, has_default_role) ==
    \/ ScimRejected("create", authorization, org_id)
    \/ /\ verify_scim_token(authorization, org_id) = 200
       /\ IF \E i \in ScimIds : scimUsers[i].username = userName
          THEN /\ UNCHANGED <<scimUsers, deleteCalls>>
               /\ sresp' = SResponse("create", 409, authorization, org_id, 0, TRUE)
          ELSE /\ Len(scimUsers) < MaxScimUsers
               /\ scimUsers' = Append(scimUsers,
                      [username |-> userName,
                       status |-> IF active THEN "active" ELSE "inactive",
                       org |-> org_id, mapped |-> TRUE, member |-> has_default_role])
               /\ deleteCalls' = Append(deleteCalls, 0)
               /\ sresp' = SResponse("create", 200, authorization, org_id,
                                     Len(scimUsers) + 1, TRUE)

\* PUT /scim/v2/Users/{id}
UpdateScimUser(authorization, org_id, scim_id, active) ==
    \/ ScimRejected("update", authorization, org_id)
    \/ /\ verify_scim_token(authorization, org_id) = 200
       /\ UNCHANGED deleteCalls
       /\ IF ~ScimRow(scim_id, org_id)
          THEN /\ UNCHANGED scimUsers
               /\ sresp' = SResponse("update", 404, authorization, org_id, scim_id, TRUE)
          ELSE /\ scimUsers' = [scimUsers EXCEPT ![scim_id].status =
                                    IF active THEN "active" ELSE "inactive"]
               /\ sresp' = SResponse("update", 200, authorization, org_id, scim_id, TRUE)

\* DELETE /scim/v2/Users/{id}. When the mapping is found, user.status is set in
\* the session, and then select(OrganizationMember).where(...).delete() is
\* evaluated: a Select has no delete method, the attribute lookup raises, the
\* handler's except branch rolls the session back and answers 500.
DeleteScimUser(authorization, org_id, scim_id) ==
    \/ ScimRejected("delete", authorization, org_id)
    \/ /\ verify_scim_token(authorization, org_id) = 200
       /\ deleteCalls' = IF scim_id \in ScimIds
                             /\ (ScimRow(scim_id, org_id) \/ deleteCalls[scim_id] > 0)
                             /\ deleteCalls[scim_id] < MaxDeleteCalls
                         THEN [deleteCalls EXCEPT ![scim_id] = @ + 1]
                         ELSE deleteCalls
       /\ UNCHANGED scimUsers
       /\ sresp' = SResponse("delete", IF ScimRow(scim_id, org_id) THEN 500 ELSE 404,
                             authorization, org_id, scim_id, TRUE)

ScimNext ==
    \/ \E a \in Headers, o \in OrgContexts : GetServiceProviderConfig(a, o)
    \/ \E a \in Headers, o \in OrgContexts : GetSchemas(a, o)
    \/ \E a \in Headers, o \in OrgContexts, op \in {"list", "groups"} : ListResources(op, a, o)
    \/ \E a \in Headers, o \in OrgContexts, i \in 1..MaxScimUsers : GetScimUser(a, o, i)
    \/ \E a \in Headers, o \in OrgContexts, n \in UserNames, act \in BOOLEAN, r \in BOOLEAN :
            CreateScimUser(a, o, n, act, r)
    \/ \E a \in Headers, o \in OrgContexts, i \in 1..MaxScimUsers, act \in BOOLEAN :
            UpdateScimUser(a, o, i, act)
    \/ \E a \in Headers, o \in OrgContexts, i \in 1..MaxScimUsers : DeleteScimUser(a, o, i)

\* ---------------------------------------------------------------- policy state
VARIABLES
    policies,       \* policies table: sequence of rows, position = policy id
    userRoles,      \* user_roles table: role ids granted to the subject
    evalCache,      \* keys policy:eval:* of the key-value store
    permCache,      \* key user:permissions:{user_id} of the key-value store
    changes,        \* committed policy and role-binding changes so far
    updates,        \* successful update_policy calls per policy id
    ucall,          \* update_policy in progress on each service instance
    presp           \* last response of the policy API

policyVars == <<policies, userRoles, evalCache, permCache, changes, updates, ucall, presp>>

Instances == {"i1", "i2"}
Effects == {"allow", "deny"}
Priorities == {0, 1}
RoleIds == {"r1", "r9"}
ExistingRoles == {"r1"}
PolicyIds == 1..MaxPolicies
NoDecision == [allowed |-> FALSE, asOf |-> -1]
NoVersion == 0
IdleUpdate == [pc |-> "idle", id |-> 0, version |-> NoVersion, effect |-> "deny"]

PResponse(op, status, cached, allowed, asOf, count) ==
    [op |-> op, status |-> status, cached |-> cached,
     allowed |-> allowed, asOf |-> asOf, changes |-> count]

PolicyInit ==
    /\ policies = <<>>
    /\ userRoles = {}
    /\ evalCache = NoDecision
    /\ permCache = FALSE
    /\ changes = 0
    /\ updates = [p \in PolicyIds |-> 0]
    /\ ucall = [i \in Instances |-> IdleUpdate]
    /\ presp = [op |-> "none", status |-> 0, cached |-> FALSE,
                allowed |-> FALSE, asOf |-> -1, changes |-> 0]

\* dependencies.require_admin
require_admin(is_admin) == IF is_admin THEN 200 ELSE 403

NotAdmin(op, is_admin) ==
    /\ require_admin(is_admin) = 403
    /\ presp' = PResponse(op, 403, FALSE, FALSE, -1, changes)
    /\ UNCHANGED <<policies, userRoles, evalCache, permCache, changes, updates, ucall>>

\* POST /v1/policies/: the row is added and committed (Policy.version takes its
\* column default 1) and the audit event is written; no cache key is touched.
create_policy(is_admin, effect, priority) ==
    \/ NotAdmin("create", is_admin)
    \/ /\ require_admin(is_admin) = 200
       /\ Len(policies) < MaxPolicies
       /\ changes < MaxChanges
       /\ policies' = Append(policies, [version |-> 1, effect |-> effect,
                                        priority |-> priority])
       /\ changes' = changes + 1
       /\ presp' = PResponse("create", 201, FALSE, FALSE, -1, changes + 1)
       /\ UNCHANGED <<userRoles, evalCache, permCache, updates, ucall>>

\* PATCH /v1/policies/{id}, first half: db.query(Policy)...first() loads the row
\* into the session of the instance that serves the request.
update_policy_read(i, is_admin, id, effect) ==
    /\ ucall[i].pc = "idle"
    /\ \/ NotAdmin("update", is_admin)
       \/ /\ require_admin(is_admin) = 200
          /\ id \notin 1..Len(policies)
          /\ presp' = PResponse("update", 404, FALSE, FALSE, -1, changes)
          /\ UNCHANGED <<policies, userRoles, evalCache, permCache, changes, updates, ucall>>
       \/ /\ require_admin(is_admin) = 200
          /\ id \in 1..Len(policies)
          /\ updates[id] < MaxUpdates
          /\ changes < MaxChanges
          /\ ucall' = [ucall EXCEPT ![i] = [pc |-> "loaded", id |-> id,
                                            version |-> policies[id].version,
                                            effect |-> effect]]
          /\ UNCHANGED <<policies, userRoles, evalCache, permCache, changes, updates, presp>>

\* PATCH /v1/policies/{id}, second half: the fields are set on the loaded
\* object, policy.version += 1 is computed from the loaded value, db.commit()
\* writes both, and cache.delete_pattern("policy:eval:*") empties the namespace.
update_policy_commit(i) ==
    /\ ucall[i].pc = "loaded"
    /\ updates[ucall[i].id] < MaxUpdates
    /\ changes < MaxChanges
    /\ policies' = [policies EXCEPT ![ucall[i].id].effect = ucall[i].effect,
                                    ![ucall[i].id].version = ucall[i].version + 1]
    /\ updates' = [updates EXCEPT ![ucall[i].id] = @ + 1]
    /\ changes' = changes + 1
    /\ evalCache' = NoDecision
    /\ ucall' = [ucall EXCEPT ![i] = IdleUpdate]
    /\ presp' = PResponse("update", 200, FALSE, FALSE, -1, changes + 1)
    /\ UNCHANGED <<userRoles, permCache>>

\* DELETE /v1/policies/{id}. When the row is found the handler evaluates
\* db.query(PolicyEvaluation): the module never imports that name, the lookup
\* raises before db.delete, and the request ends in 500 with nothing written.
delete_policy(is_admin, id) ==
    \/ NotAdmin("delete", is_admin)
    \/ /\ require_admin(is_admin) = 200
       /\ presp' = PResponse("delete", IF id \in 1..Len(policies) THEN 500 ELSE 404,
                             FALSE, FALSE, -1, changes)
       /\ UNCHANGED <<policies, userRoles, evalCache, permCache, changes, updates, ucall>>

\* POST /v1/policies/roles/{role_id}/assign: only user:permissions:{user_id}
\* is deleted from the key-value store.
assign_role_to_user(is_admin, role_id) ==
    \/ NotAdmin("assign", is_admin)
    \/ /\ require_admin(is_admin) = 200
       /\ \/ /\ role_id \notin ExistingRoles
             /\ presp' = PResponse("assign", 404, FALSE, FALSE, -1, changes)
             /\ UNCHANGED <<userRoles, permCache, changes>>
          \/ /\ role_id \in ExistingRoles
             /\ role_id \in userRoles
             /\ presp' = PResponse("assign", 400, FALSE, FALSE, -1, changes)
             /\ UNCHANGED <<userRoles, permCache, changes>>
          \/ /\ role_id \in ExistingRoles
             /\ role_id \notin userRoles
             /\ changes < MaxChanges
             /\ userRoles' = userRoles \cup {role_id}
             /\ permCache' = FALSE
             /\ changes' = changes + 1
             /\ presp' = PResponse("assign", 200, FALSE, FALSE, -1, changes + 1)
       /\ UNCHANGED <<policies, evalCache, updates, ucall>>

\* DELETE /v1/policies/roles/{role_id}/unassign
unassign_role_from_user(is_admin, role_id) ==
    \/ NotAdmin("unassign", is_admin)
    \/ /\ require_admin(is_admin) = 200
       /\ \/ /\ role_id \notin userRoles
             /\ presp' = PResponse("unassign", 404, FALSE, FALSE, -1, changes)
             /\ UNCHANGED <<userRoles, permCache, changes>>
          \/ /\ role_id \in userRoles
             /\ changes < MaxChanges
             /\ userRoles' = userRoles \ {role_id}
             /\ permCache' = FALSE
             /\ changes' = changes + 1
             /\ presp' = PResponse("unassign", 200, FALSE, FALSE, -1, changes + 1)
       /\ UNCHANGED <<policies, evalCache, updates, ucall>>

\* policies that reach the subject: every policy is bound to the role, and
\* reaches the subject while the subject holds the role
Reachable(rows, roles) ==
    {p \in 1..Len(rows) : roles # {}}

\* the matching policies of highest priority decide; none matching denies
Decisions(rows, roles) ==
    LET top == {p \in Reachable(rows, roles) :
                    \A q \in Reachable(rows, roles) : rows[q].priority <= rows[p].priority}
    IN  IF top = {} THEN {FALSE} ELSE {rows[p].effect = "allow" : p \in top}

\* POST /v1/policies/evaluate: PolicyEngine.evaluate answers from the
\* policy:eval key when it is present, and otherwise decides from the tables
\* and stores the decision under the key.
evaluate_policies ==
    /\ permCache' = TRUE
    /\ UNCHANGED <<policies, userRoles, changes, updates, ucall>>
    /\ IF evalCache # NoDecision
       THEN /\ UNCHANGED evalCache
            /\ presp' = PResponse("evaluate", 200, TRUE,
                                  evalCache.allowed, evalCache.asOf, changes)
       ELSE \E d \in Decisions(policies, userRoles) :
                /\ evalCache' = [allowed |-> d, asOf |-> changes]
                /\ presp' = PResponse("evaluate", 200, FALSE, d, changes, changes)

\* the key-value store drops the cached decision (TTL or eviction)
EvalCacheExpiry ==
    /\ evalCache # NoDecision
    /\ evalCache' = NoDecision
    /\ UNCHANGED <<policies, userRoles, permCache, changes, updates, ucall, presp>>

PolicyNext ==
    \/ \E a \in BOOLEAN, e \in Effects, p \in Priorities : create_policy(a, e, p)
    \/ \E i \in Instances, a \in BOOLEAN, id \in 1..MaxPolicies + 1, e \in Effects :
            update_policy_read(i, a, id, e)
    \/ \E i \in Instances : update_policy_commit(i)
    \/ \E a \in BOOLEAN, id \in 1..MaxPolicies + 1 : delete_policy(a, id)
    \/ \E a \in BOOLEAN, r \in RoleIds : assign_role_to_user(a, r)
    \/ \E a \in BOOLEAN, r \in RoleIds : unassign_role_from_user(a, r)
    \/ evaluate_policies
    \/ EvalCacheExpiry

\* ------------------------------------------------- sign-up, sign-in and logout
VARIABLES
    accounts,       \* users table, by email
    logins,         \* sessions table: sequence of rows
    denyKeys,       \* blacklist keys written by logout, by session row
    trail,          \* committed audit_logs rows
    outcome         \* how the last request ended

signVars == <<accounts, logins, denyKeys, trail, outcome>>

Addresses == {"ann", "ben"}
Registered == {"ann"}
\* "alllowercase" is long enough for the request schema and lacks the
\* character classes validate_password_strength asks for
SignupPasswords == Passwords \cup {"alllowercase"}
FailedFactors == {"not_found", "inactive", "suspended", "bad_password"}
InvalidCredentials == "Invalid email or password"
NoAccount == [registered |-> FALSE, is_active |-> FALSE, is_suspended |-> FALSE,
              password_hash |-> <<>>]

\* validate_password_strength: length and character classes
validate_password_strength(password) == password \in Passwords

\* AuthService.create_audit_log: reads the tenant's latest row and adds the new
\* one to the caller's transaction; an error of the store is raised to the caller
create_audit_log(store_fails) == IF store_fails THEN "raised" ELSE "added"

\* authenticate_user's decision over the users table
Factor(email, password) ==
    IF ~accounts[email].registered THEN "not_found"
    ELSE IF ~accounts[email].is_active THEN "inactive"
    ELSE IF accounts[email].is_suspended THEN "suspended"
    ELSE IF ~verify_password(password, accounts[email].password_hash) THEN "bad_password"
    ELSE "ok"

Outcome(op, cause, status, detail, audit_failed) ==
    [op |-> op, cause |-> cause, status |-> status, detail |-> detail,
     audit_failed |-> audit_failed]

SignInit ==
    /\ accounts \in {f \in [Addresses -> [registered : BOOLEAN, is_active : BOOLEAN,
                                          is_suspended : BOOLEAN,
                                          password_hash : {<<>>, hash_password("pw1")}]] :
                        \A a \in Addresses :
                            IF a \in Registered
                            THEN f[a].registered /\ f[a].password_hash = hash_password("pw1")
                            ELSE f[a] = NoAccount}
    /\ logins = <<>>
    /\ denyKeys = {}
    /\ trail = {}
    /\ outcome = Outcome("none", "none", 0, "", FALSE)

\* POST /signup: rate limit, create_user (password strength, duplicate check,
\* user row, audit row, commit); every exception other than ValueError is
\* answered 500 and the request's transaction is rolled back.
SignupAttempt(email, password, allowed, store_fails) ==
    /\ UNCHANGED <<logins, denyKeys>>
    /\ IF ~allowed
       THEN /\ outcome' = Outcome("signup", "rate_limited", 429, "Too many signup attempts", FALSE)
            /\ UNCHANGED <<accounts, trail>>
       ELSE IF ~validate_password_strength(password)
       THEN /\ outcome' = Outcome("signup", "weak_password", 400, "Password must contain at least one uppercase letter", FALSE)
            /\ UNCHANGED <<accounts, trail>>
       ELSE IF accounts[email].registered
       THEN /\ outcome' = Outcome("signup", "exists", 400,
                                  "User with this email already exists", FALSE)
            /\ UNCHANGED <<accounts, trail>>
       ELSE IF create_audit_log(store_fails) = "raised"
       THEN /\ outcome' = Outcome("signup", "ok", 500, "Registration failed", TRUE)
            /\ UNCHANGED <<accounts, trail>>
       ELSE /\ accounts' = [accounts EXCEPT ![email] =
                               [registered |-> TRUE, is_active |-> TRUE,
                                is_suspended |-> FALSE,
                                password_hash |-> hash_password(password)]]
            /\ trail' = trail \cup {<<"user_created", email>>}
            /\ outcome' = Outcome("signup", "ok", 200, "", FALSE)

\* POST /signin: rate limit, authenticate_user, create_session. The handler
\* catches nothing: an exception out of authenticate_user ends the request in
\* 500. The login_failed row is never committed, the 401 rolls it back.
SigninAttempt(email, password, allowed, store_fails) ==
    LET cause == Factor(email, password)
    IN  /\ UNCHANGED <<accounts, denyKeys>>
        /\ IF ~allowed
           THEN /\ outcome' = Outcome("signin", "rate_limited", 429,
                                      "Too many signin attempts", FALSE)
                /\ UNCHANGED <<logins, trail>>
           ELSE IF cause \in {"not_found", "inactive", "suspended"}
           THEN /\ outcome' = Outcome("signin", cause, 401, InvalidCredentials, FALSE)
                /\ UNCHANGED <<logins, trail>>
           ELSE IF create_audit_log(store_fails) = "raised"
           THEN /\ outcome' = Outcome("signin", cause, 500, "Internal Server Error", TRUE)
                /\ UNCHANGED <<logins, trail>>
           ELSE IF cause = "bad_password"
           THEN /\ outcome' = Outcome("signin", cause, 401, InvalidCredentials, FALSE)
                /\ UNCHANGED <<logins, trail>>
           ELSE /\ Len(logins) < MaxLogins
                /\ logins' = Append(logins, [user_id |-> email, is_active |-> TRUE])
                /\ trail' = trail \cup {<<"login_success", email>>}
                /\ outcome' = Outcome("signin", cause, 200, "", FALSE)

\* AuthService.logout(session_id, user_id): the row is marked, the blacklist
\* keys are written and the session-store entry deleted, then the audit row is
\* added and the transaction committed. When the audit write raises, the keys
\* stay written and the row change is rolled back with the request.
LogoutAttempt(sid, user_id, store_fails) ==
    /\ UNCHANGED <<accounts>>
    /\ IF sid \notin 1..Len(logins) \/ logins[sid].user_id # user_id
       THEN /\ outcome' = Outcome("logout", "not_found", 404, "", FALSE)
            /\ UNCHANGED <<logins, denyKeys, trail>>
       ELSE /\ denyKeys' = denyKeys \cup {sid}
            /\ IF create_audit_log(store_fails) = "raised"
               THEN /\ outcome' = Outcome("logout", "ok", 500, "Internal Server Error", TRUE)
                    /\ UNCHANGED <<logins, trail>>
               ELSE /\ logins' = [logins EXCEPT ![sid].is_active = FALSE]
                    /\ trail' = trail \cup {<<"logout", user_id>>}
                    /\ outcome' = Outcome("logout", "ok", 200, "", FALSE)

\* what each operation answers when its audit write goes through
NormalStatus(op, cause) ==
    IF op = "signin" /\ cause = "bad_password" THEN 401 ELSE 200

SignNext ==
    \/ \E e \in Addresses, p \in SignupPasswords, a \in BOOLEAN, f \in BOOLEAN :
            SignupAttempt(e, p, a, f)
    \/ \E e \in Addresses, p \in Passwords, a \in BOOLEAN, f \in BOOLEAN :
            SigninAttempt(e, p, a, f)
    \/ \E s \in 1..MaxLogins, u \in Addresses, f \in BOOLEAN : LogoutAttempt(s, u, f)

\* ------------------------------------------------ reset-password calls in flight
VARIABLES
    pcall,          \* reset_password in progress on each worker
    resetUses       \* reset_password calls answered 200, per reset token

resetCallVars == <<pcall, resetUses>>

IdleReset == [pc |-> "idle", k |-> 0, email |-> "nobody", new_password |-> ""]

ResetCallInit ==
    /\ pcall = [w \in Workers |-> IdleReset]
    /\ resetUses = [k \in 1..MaxResetTokens |-> 0]

ResetRest ==
    UNCHANGED <<sessions, authAudit, blacklist, issued, nextJti, nextFamily,
                nextReset, rcall, owner, rotations, origFamily, rotCount,
                signedOut, cacheLost>>

\* new_password values admitted by ResetPasswordRequest (min_length 8):
\* "alllowercase" has twelve characters and no uppercase letter, digit or
\* special character
ResetPasswords == Passwords \cup {"alllowercase"}

\* reset_password up to the answer of redis_client.get("reset_token:<token>")
ResetLookup(w, k, new_password) ==
    /\ pcall[w].pc = "idle"
    /\ \E raised \in BOOLEAN :
        LET stored == {e \in Emails : <<k, e>> \in resetTokens}
        IN  IF raised
            THEN /\ resp' = Response("reset_password", NoTok, 500)
                 /\ UNCHANGED pcall
            ELSE IF stored = {}
            THEN /\ resp' = Response("reset_password", NoTok, 400)
                 /\ UNCHANGED pcall
            ELSE /\ pcall' = [pcall EXCEPT ![w] =
                                [pc |-> "found", k |-> k,
                                 email |-> CHOOSE e \in stored : TRUE,
                                 new_password |-> new_password]]
                 /\ UNCHANGED resp
    /\ UNCHANGED <<users, sessionCache, resetTokens, resetSessions, resetUses>>
    /\ ResetRest

\* reset_password from the user query to db.commit()
ResetWrite(w) ==
    /\ pcall[w].pc = "found"
    /\ IF pcall[w].email \notin Users
       THEN /\ resp' = Response("reset_password", NoTok, 404)
            /\ pcall' = [pcall EXCEPT ![w] = IdleReset]
            /\ UNCHANGED users
       ELSE /\ users' = [users EXCEPT ![pcall[w].email].password_hash =
                                          hash_password(pcall[w].new_password)]
            /\ pcall' = [pcall EXCEPT ![w].pc = "committed"]
            /\ UNCHANGED resp
    /\ UNCHANGED <<sessionCache, resetTokens, resetSessions, resetUses>>
    /\ ResetRest

\* reset_password after the commit: session_store.delete_session, deletion of
\* the reset token, answer 200
ResetFinish(w) ==
    /\ pcall[w].pc = "committed"
    /\ sessionCache' = delete_session(sessionCache, UserId(pcall[w].email))
    /\ resetTokens' = resetTokens \ {<<pcall[w].k, pcall[w].email>>}
    /\ resetSessions' = resetSessions \cup SessionsOf(pcall[w].email)
    /\ resetUses' = [resetUses EXCEPT ![pcall[w].k] = @ + 1]
    /\ pcall' = [pcall EXCEPT ![w] = IdleReset]
    /\ resp' = Response("reset_password", NoTok, 200)
    /\ UNCHANGED users
    /\ ResetRest

\* forgot-password, then reset-password calls on two workers
ResetCallNext ==
    \/ \E e \in Emails : ForgotPassword(e) /\ UNCHANGED resetCallVars
    \/ \E e \in Emails, p \in Passwords : Signin(e, p) /\ UNCHANGED resetCallVars
    \/ \E w \in Workers, k \in 1..MaxResetTokens, p \in ResetPasswords : ResetLookup(w, k, p)
    \/ \E w \in Workers : ResetWrite(w)
    \/ \E w \in Workers : ResetFinish(w)

\* ------------------------------------------------------------- migration tool
VARIABLES
    args,           \* parsed command line of auth0_migrate.py
    sourceUsers,    \* user records at the provider, or in the --import-only file
    reportedTotal,  \* "total" of the latest page response
    mpc,            \* where main() stands
    page,           \* export_users: page requested next
    exported,       \* export_users: users accumulated so far
    nextUser,       \* import_users: position in the list
    converted,      \* import_users: outcome of _convert_auth0_user per user
    results,        \* import_users: counters
    exitCode        \* process exit status, -1 while running

migrateVars == <<args, sourceUsers, reportedTotal, mpc, page, exported, nextUser,
                 converted, results, exitCode>>

\* a Python dict as a set of <<key, value>> pairs with distinct keys
Get(d, k) == IF \E p \in d : p[1] = k THEN (CHOOSE p \in d : p[1] = k)[2] ELSE "None"

\* {**a, **b}: keys of b win
Merge(a, b) == b \cup {p \in a : \A q \in b : q[1] # p[1]}

MetadataChoices ==
    { [kind |-> "absent", items |-> {}],
      [kind |-> "null", items |-> {}],
      [kind |-> "dict", items |-> {}],
      [kind |-> "dict", items |-> {<<"plan", "pro">>}],
      [kind |-> "dict", items |-> {<<"migrated_from", "okta">>}],
      [kind |-> "dict", items |-> {<<"auth0_user_id", "legacy-7">>}] }

SourceRecords ==
    [has_email : BOOLEAN, user_id : {"auth0|1"}, user_metadata : MetadataChoices]

UserLists == UNION {[1..n -> SourceRecords] : n \in 0..MaxSourceUsers}

Raised == [raised |-> TRUE, metadata |-> {}, require_password_reset |-> FALSE]

\* PlintoClient._convert_auth0_user: auth0_user["email"] raises on a record
\* without email, ** raises on a user_metadata of None; the metadata literal
\* lists its own three keys first and spreads user_metadata after them
_convert_auth0_user(auth0_user) ==
    IF ~auth0_user.has_email THEN Raised
    ELSE IF auth0_user.user_metadata.kind = "null" THEN Raised
    ELSE [raised |-> FALSE,
          metadata |-> Merge({<<"auth0_user_id", auth0_user.user_id>>,
                              <<"migrated_from", "auth0">>,
                              <<"migration_date", "utcnow">>},
                             auth0_user.user_metadata.items),
          require_password_reset |-> TRUE]

MigrateInit ==
    /\ args \in [config : BOOLEAN, export_only : BOOLEAN, import_only : BOOLEAN]
    /\ sourceUsers \in UserLists
    /\ reportedTotal = 0
    /\ mpc = "main"
    /\ page = 0
    /\ exported = <<>>
    /\ nextUser = 1
    /\ converted = <<>>
    /\ results = [success |-> 0, failed |-> 0, skipped |-> 0]
    /\ exitCode = -1

Exit(code) ==
    /\ mpc' = "exited"
    /\ exitCode' = code

\* main, lines 297-317: the --config test, then either the export branch
\* (Auth0Client, authenticate) or the --import-only branch
MainStart ==
    /\ mpc = "main"
    /\ UNCHANGED <<args, sourceUsers, reportedTotal, page, exported, nextUser,
                   converted, results>>
    /\ IF ~args.import_only /\ ~args.config
       THEN Exit(1)
       ELSE IF ~args.import_only
       THEN \E authenticated \in BOOLEAN :
                IF authenticated
                THEN mpc' = "exporting" /\ UNCHANGED exitCode
                ELSE Exit(1)
       ELSE mpc' = "loading" /\ UNCHANGED exitCode

\* the users the provider returns for a page
PageOf(p) ==
    SubSeq(sourceUsers,
           IF p * PageSize + 1 <= Len(sourceUsers) THEN p * PageSize + 1
           ELSE Len(sourceUsers) + 1,
           IF (p + 1) * PageSize <= Len(sourceUsers) THEN (p + 1) * PageSize
           ELSE Len(sourceUsers))

\* export_users: one turn of the while loop. The provider answers with a
\* status, the page of users and a total that it reports on its own account.
\* Pages from MaxPage on are not told apart.
ExportPage(status, total) ==
    /\ mpc = "exporting"
    /\ UNCHANGED <<args, sourceUsers, nextUser, converted, results>>
    /\ IF status # 200
       THEN /\ Exit(1)
            /\ UNCHANGED <<reportedTotal, page, exported>>
       ELSE /\ exported' = exported \o PageOf(page)
            /\ reportedTotal' = total
            /\ IF Len(exported') >= total
               THEN /\ mpc' = IF args.export_only THEN "returned" ELSE "checking"
                    /\ UNCHANGED page
               ELSE /\ page' = IF page < MaxPage THEN page + 1 ELSE page
                    /\ UNCHANGED mpc
            /\ exitCode' = IF Len(exported') >= total /\ args.export_only THEN 0
                           ELSE exitCode

\* main, lines 330-333: json.load of the --import-only file
LoadFile ==
    /\ mpc = "loading"
    /\ exported' = sourceUsers
    /\ mpc' = "checking"
    /\ UNCHANGED <<args, sourceUsers, reportedTotal, page, nextUser, converted,
                   results, exitCode>>

\* main, lines 335-345: --config is read again before the import
ConfigCheck ==
    /\ mpc = "checking"
    /\ UNCHANGED <<args, sourceUsers, reportedTotal, page, exported, nextUser,
                   converted, results>>
    /\ IF ~args.config
       THEN Exit(1)
       ELSE mpc' = "importing" /\ UNCHANGED exitCode

\* import_users: one turn of the for loop
ImportUser(exists, posted) ==
    /\ mpc = "importing"
    /\ nextUser <= Len(exported)
    /\ LET plinto_user == _convert_auth0_user(exported[nextUser])
       IN  /\ converted' = Append(converted, plinto_user)
           /\ results' =
                IF plinto_user.raised THEN [results EXCEPT !.failed = @ + 1]
                ELSE IF exists THEN [results EXCEPT !.skipped = @ + 1]
                ELSE IF posted THEN [results EXCEPT !.success = @ + 1]
                ELSE [results EXCEPT !.failed = @ + 1]
    /\ nextUser' = nextUser + 1
    /\ UNCHANGED <<args, sourceUsers, reportedTotal, mpc, page, exported, exitCode>>

\* main, lines 347-352: generate_report and return
Report ==
    /\ mpc = "importing"
    /\ nextUser > Len(exported)
    /\ mpc' = "returned"
    /\ exitCode' = 0
    /\ UNCHANGED <<args, sourceUsers, reportedTotal, page, exported, nextUser,
                   converted, results>>

MigrateNext ==
    \/ MainStart
    \/ \E s \in {200, 503}, t \in 0..MaxTotal : ExportPage(s, t)
    \/ LoadFile
    \/ ConfigCheck
    \/ \E x \in BOOLEAN, p \in BOOLEAN : ImportUser(x, p)
    \/ Report

\* ---------------------------------------------------------------- rate limiter
VARIABLES
    counters,       \* key-value store: rate-limit key -> [count, expires_at]
    ltime,          \* the key-value store's clock
    lresp,          \* last (allowed, remaining) returned
    windowStart,    \* per key: time of the call that opened the current window
    windowCalls,    \* per key: calls made since then, that call included
    refused         \* per key: some call has been refused

limitVars == <<counters, ltime, lresp, windowStart, windowCalls, refused>>

LimiterKeys == {"signup:ann", "signup:ben"}
NoCounter == [count |-> 0, expires_at |-> 0]

\* a key with an expiry is gone once the clock has passed it
Live(c, t) == c.count > 0 /\ t <= c.expires_at

within_limit_strict(count, limit) == count < limit
within_limit(count, limit) == count <= limit

LimitInit ==
    /\ counters = [k \in LimiterKeys |-> NoCounter]
    /\ ltime = 0
    /\ lresp = [key |-> "none", allowed |-> TRUE, remaining |-> 0, count |-> 0]
    /\ windowStart = [k \in LimiterKeys |-> 0]
    /\ windowCalls = [k \in LimiterKeys |-> 0]
    /\ refused = [k \in LimiterKeys |-> FALSE]

\* RateLimiter.check_rate_limit(key, limit, window): increment the counter,
\* give it the expiry on the first increment, compare with the limit
check_rate_limit(key, limit, window) ==
    LET before == IF Live(counters[key], ltime) THEN counters[key] ELSE NoCounter
        count == before.count + 1
        allowed == within_limit(count, limit)
    IN  /\ count <= MaxAttempts
        /\ counters' = [counters EXCEPT ![key] =
                            [count |-> count,
                             expires_at |-> IF count = 1 THEN ltime + window
                                            ELSE before.expires_at]]
        /\ lresp' = [key |-> key, allowed |-> allowed,
                     remaining |-> IF limit > count THEN limit - count ELSE 0,
                     count |-> count]
        /\ IF windowCalls[key] = 0 \/ ltime > windowStart[key] + window
           THEN /\ windowStart' = [windowStart EXCEPT ![key] = ltime]
                /\ windowCalls' = [windowCalls EXCEPT ![key] = 1]
           ELSE /\ windowCalls' = [windowCalls EXCEPT ![key] = @ + 1]
                /\ UNCHANGED windowStart
        /\ refused' = [refused EXCEPT ![key] = @ \/ ~allowed]
        /\ UNCHANGED ltime

\* signup's limiter call: 5 signups per hour per email
SignupLimiter(key) == check_rate_limit(key, SignupLimit, SignupWindow)

LimiterTick ==
    /\ ltime < MaxLimiterTime
    /\ ltime' = ltime + 1
    /\ UNCHANGED <<counters, lresp, windowStart, windowCalls, refused>>

LimitNext ==
    \/ \E k \in LimiterKeys : SignupLimiter(k)
    \/ LimiterTick

\* ------------------------------------------------------------ specifications
vars == <<authVars, auditVars, inviteVars, scimVars, policyVars, signVars, resetCallVars, migrateVars, limitVars>>

\* each part of the platform is studied with the others at rest
AuthAtRest ==
    /\ AuthInit
    /\ \A u \in Users : users[u].is_active /\ ~users[u].is_suspended

SignAtRest ==
    /\ SignInit
    /\ \A a \in Registered : accounts[a].is_active /\ ~accounts[a].is_suspended

MigrateAtRest ==
    /\ MigrateInit
    /\ sourceUsers = <<>>
    /\ args = [config |-> FALSE, export_only |-> FALSE, import_only |-> FALSE]

AuditStart ==
    /\ AuthAtRest
    /\ AuditInit
    /\ InviteInit
    /\ ScimInit
    /\ PolicyInit
    /\ SignAtRest
    /\ ResetCallInit
    /\ MigrateAtRest
    /\ LimitInit

InviteStart ==
    /\ AuthAtRest
    /\ AuditInit
    /\ InviteInit
    /\ ScimInit
    /\ PolicyInit
    /\ SignAtRest
    /\ ResetCallInit
    /\ MigrateAtRest
    /\ LimitInit

ScimStart ==
    /\ AuthAtRest
    /\ AuditInit
    /\ InviteInit
    /\ ScimInit
    /\ PolicyInit
    /\ SignAtRest
    /\ ResetCallInit
    /\ MigrateAtRest
    /\ LimitInit

PolicyStart ==
    /\ AuthAtRest
    /\ AuditInit
    /\ InviteInit
    /\ ScimInit
    /\ PolicyInit
    /\ SignAtRest
    /\ ResetCallInit
    /\ MigrateAtRest
    /\ LimitInit

SignStart ==
    /\ AuthAtRest
    /\ AuditInit
    /\ InviteInit
    /\ ScimInit
    /\ PolicyInit
    /\ SignInit
    /\ ResetCallInit
    /\ MigrateAtRest
    /\ LimitInit

ResetCallStart ==
    /\ AuthAtRest
    /\ AuditInit
    /\ InviteInit
    /\ ScimInit
    /\ PolicyInit
    /\ SignAtRest
    /\ ResetCallInit
    /\ MigrateAtRest
    /\ LimitInit

MigrateStart ==
    /\ AuthAtRest
    /\ AuditInit
    /\ InviteInit
    /\ ScimInit
    /\ PolicyInit
    /\ SignAtRest
    /\ ResetCallInit
    /\ MigrateInit
    /\ LimitInit

LimitStart ==
    /\ AuthAtRest
    /\ AuditInit
    /\ InviteInit
    /\ ScimInit
    /\ PolicyInit
    /\ SignAtRest
    /\ ResetCallInit
    /\ MigrateAtRest
    /\ LimitInit

Init == AuthInit /\ AuditInit /\ InviteInit /\ ScimInit /\ PolicyInit /\ SignAtRest /\ ResetCallInit /\ MigrateAtRest /\ LimitInit
Next == SessionNext({"w1"}) /\ UNCHANGED <<auditVars, inviteVars, scimVars, policyVars, signVars, resetCallVars, migrateVars, limitVars>>
Spec == Init /\ [][Next]_vars
RaceSpec == Init /\ [][RaceNext /\ UNCHANGED <<auditVars, inviteVars, scimVars, policyVars, signVars, resetCallVars, migrateVars, limitVars>>]_vars
ResetSpec == Init /\ [][ResetNext /\ UNCHANGED <<auditVars, inviteVars, scimVars, policyVars, signVars, resetCallVars, migrateVars, limitVars>>]_vars
StatusSpec == Init /\ [][StatusNext /\ UNCHANGED <<auditVars, inviteVars, scimVars, policyVars, signVars, resetCallVars, migrateVars, limitVars>>]_vars
AuditSpec == AuditStart /\ [][AuditNext /\ UNCHANGED <<authVars, inviteVars, scimVars, policyVars, signVars, resetCallVars, migrateVars, limitVars>>]_vars
InviteSpec == InviteStart /\ [][InviteNext /\ UNCHANGED <<authVars, auditVars, scimVars, policyVars, signVars, resetCallVars, migrateVars, limitVars>>]_vars
PolicySpec == PolicyStart /\ [][PolicyNext /\ UNCHANGED <<authVars, auditVars, inviteVars, scimVars, signVars, resetCallVars, migrateVars, limitVars>>]_vars
SignSpec == SignStart /\ [][SignNext /\ UNCHANGED <<authVars, auditVars, inviteVars, scimVars, policyVars, resetCallVars, migrateVars, limitVars>>]_vars
ResetCallSpec == ResetCallStart /\ [][ResetCallNext /\ UNCHANGED <<auditVars, inviteVars, scimVars, policyVars, signVars, migrateVars, limitVars>>]_vars
MigrateSpec == MigrateStart /\ [][MigrateNext /\ UNCHANGED <<authVars, auditVars, inviteVars, scimVars, policyVars, signVars, resetCallVars, limitVars>>]_vars
MigrateLiveSpec == MigrateSpec /\ WF_vars(MigrateNext /\ UNCHANGED <<authVars, auditVars, inviteVars, scimVars, policyVars, signVars, resetCallVars, limitVars>>)
LimitSpec == LimitStart /\ [][LimitNext /\ UNCHANGED <<authVars, auditVars, inviteVars, scimVars, policyVars, signVars, resetCallVars, migrateVars>>]_vars
ScimSpec == ScimStart /\ [][ScimNext /\ UNCHANGED <<authVars, auditVars, inviteVars, policyVars, signVars, resetCallVars, migrateVars, limitVars>>]_vars

\* ------------------------------------------------- claims: sessions and tokens

\* C1: a refresh call that presents a refresh token already rotated away is
\* rejected, and when it returns no session of that token's family is active.
C1_ReplayRevokesFamily ==
    (resp.op = "refresh" /\ resp.replay) =>
        (resp.status = 401 /\ ~resp.familyActive)

\* C2: once POST /signout has answered 200 for access token T, GET /me with T
\* is rejected.
C2_SignedOutTokenRejected ==
    (resp.op = "me" /\ resp.jti \in signedOut) => resp.status = 401

\* C3: no refresh token is rotated successfully more than once, whatever the
\* interleaving of the calls that present it.
C3_SingleRotationPerToken ==
    \A j \in 1..MaxJti : rotations[j] <= 1

\* C4: a refresh call that presents the current refresh token of an active
\* session of an active user, with no other handler touching the session
\* meanwhile, succeeds; every refresh token issued, and the session row, carry
\* the family of the session's first refresh token.
C4_RotationKeepsFamily ==
    /\ (resp.op = "refresh" /\ resp.clean) => resp.status = 200
    /\ \A t \in RefreshTokens : t.family = origFamily[owner[t.jti]]
    /\ \A s \in SessionIds : sessions[s].refresh_token_family = origFamily[s]

C4_TwoRotationsDone ==
    /\ resp.op = "refresh" /\ resp.clean /\ resp.status = 200
    /\ \E s \in SessionIds : rotCount[s] >= 2

C6_CacheLossKeepsRevoked ==
    (resp.op \in {"me", "refresh"} /\ resp.lost /\ resp.inactive) =>
        resp.status = 401

\* C25: a request answered 200 by the current-user endpoint or by token
\* refresh belongs to a user who is active and not suspended.
C25_OnlyActiveUnsuspendedServed ==
    (resp.op \in {"me", "refresh"} /\ resp.status = 200)
        => \A t \in issued :
              t.jti = resp.jti => users[t.sub].is_active /\ ~users[t.sub].is_suspended

\* C26: with the key-value store intact, an access token of a session that the
\* relational store records as revoked is rejected by the current-user
\* endpoint, also when the token dates from before a rotation of the session.
C26_RevokedSessionTokensRejected ==
    (resp.op = "me" /\ resp.inactive /\ ~resp.lost) => resp.status = 401

\* ----------------------------------------------------------- claims: audit log

CommittedLogs == VisibleLogs("nobody")

\* C7: no two entries of the tenant are written with the same previous_hash,
\* whatever the interleaving of the log_event calls and whichever logger
\* instances make them.
C7_NoSharedPreviousHash ==
    \A i, j \in 1..Len(CommittedLogs) :
        i # j => CommittedLogs[i].previous_hash # CommittedLogs[j].previous_hash

\* C8: at all times the tenant's entries, ordered by creation time, are linked:
\* every entry but the first has the current_hash of the entry before it as its
\* previous_hash.
C8_ChainLinked ==
    \E p \in ByCreatedAt(CommittedLogs) :
        \A i \in 2..Len(CommittedLogs) :
            CommittedLogs[p[i]].previous_hash = CommittedLogs[p[i - 1]].current_hash

\* C9: when the entries were written through log_event and none was modified
\* afterwards, verify_integrity over the full range returns verified = true and
\* no broken link.
C9_CleanLogVerifies ==
    (report.ran /\ report.mutated = 0) =>
        (report.verified /\ report.broken_links = {})

\* position (from 0) of the altered entry in the list verify_integrity walked
MutatedPosition ==
    (CHOOSE k \in 1..Len(report.logs) : report.logs[k].id = report.mutated) - 1

HashMismatch(i) == [position |-> i, type |-> "hash_mismatch"]
ChainBreak(i) == [position |-> i, type |-> "previous_hash"]

C30_CacheReadsLastCommittedHash ==
    [][\A r \in Requests :
          (acall[r].pc = "idle" /\ acall'[r].pc = "flush" /\ ~acall'[r].fresh
             /\ lastHashCache # <<>>)
              => lastHashCache[1] \in LastHashes(VisibleLogs("committed"))]_vars

\* ---------------------------------------------------------- claims: invitations

C28_ExpiredNeverValidAgain ==
    [][\A i \in Tokens :
          (invitations[i].status # "accepted" /\ is_expired(invitations[i], now))
              => ~is_valid(invitations'[i], now')]_vars

\* C12 as stated: an invitation is valid for acceptance exactly when it is
\* pending and the clock reads strictly less than expires_at.
C12_ValidIffPendingBeforeExpiry ==
    /\ (iresp.op = "validate" /\ iresp.status = 200) =>
          (iresp.reason = "valid" <=> (iresp.pending /\ iresp.now < iresp.expires_at))
    /\ (iresp.op = "accept" /\ iresp.status = 200) =>
          (iresp.pending /\ iresp.now < iresp.expires_at)

\* C12 amended: an invitation is valid for acceptance exactly when it is
\* pending and the clock does not read later than expires_at; at the expiry
\* instant itself it is still valid.
C12_ValidIffPendingNotAfterExpiry ==
    /\ (iresp.op = "validate" /\ iresp.status = 200) =>
          (iresp.reason = "valid" <=> (iresp.pending /\ iresp.now <= iresp.expires_at))
    /\ (iresp.op = "accept" /\ iresp.status = 200) =>
          (iresp.pending /\ iresp.now <= iresp.expires_at)

C12_ValidAtExpiryInstant ==
    /\ iresp.op = "validate" /\ iresp.status = 200
    /\ iresp.reason = "valid"
    /\ iresp.now = iresp.expires_at

\* C15: an invitation operation guarded as organization-admin succeeds only
\* when the caller is admin or owner of the organization the operation targets.
C15_AdminOfTargetOrgOnly ==
    (iresp.op \in {"create", "update", "resend", "revoke"}
        /\ iresp.status \in {200, 201, 204}) => iresp.adminThere
\* ------------------------------------------------------------------ claims: SCIM

\* C13: a second DELETE of the same SCIM user answers not-found, and the user's
\* status is "deleted", as the first call left it.
C13_SecondDeleteNotFound ==
    (sresp.op = "delete" /\ sresp.ran /\ sresp.nth >= 2) =>
        (sresp.status = 404 /\ sresp.user_status = "deleted")

\* C14: no endpoint under /scim/v2 runs its resource logic for a request without
\* a bearer token or for an organization that has not SCIM enabled.
C14_ScimGuardedEverywhere ==
    (sresp.op # "none" /\ sresp.ran) => (sresp.bearer /\ sresp.enabled)

\* -------------------------------------------------------------- claims: policies
\* C16: a decision answered from the policy-evaluation cache was cached after
\* the latest committed policy or role-binding change, never before it.
C16_NoStaleDecisionServed ==
    (presp.op = "evaluate" /\ presp.status = 200 /\ presp.cached)
        => presp.asOf = presp.changes

\* C17: a policy created at version 1 stands at version 1 + k after k
\* successful updates, however the updates interleave.
C17_VersionCountsUpdates ==
    \A p \in 1..Len(policies) : policies[p].version = 1 + updates[p]

\* --------------------------------------------------- claims: sign-in and audit
\* C18: a sign-in that fails on the email, the active flag, the suspended flag
\* or the password is answered with one and the same status and body.
C18_FailedSigninUniform ==
    (outcome.op = "signin" /\ outcome.cause \in FailedFactors)
        => (outcome.status = 401 /\ outcome.detail = InvalidCredentials)

\* C24: after a sign-in refused for a wrong password, the persisted audit log
\* holds a login_failed event.
C24_LoginFailedPersisted ==
    (outcome.op = "signin" /\ outcome.cause = "bad_password" /\ outcome.status = 401)
        => \E a \in Addresses : <<"login_failed", a>> \in trail

\* C20: when the audit write of a sign-up, sign-in or logout fails, the
\* operation still ends with the result it has when the write goes through.
C20_AuditFailureNotSurfaced ==
    outcome.audit_failed => outcome.status = NormalStatus(outcome.op, outcome.cause)

C21_ConvertedRecordMarked ==
    \A i \in 1..Len(converted) :
        ~converted[i].raised =>
            /\ converted[i].require_password_reset
            /\ Get(converted[i].metadata, "migrated_from") = "auth0"
            /\ Get(converted[i].metadata, "auth0_user_id") = exported[i].user_id

\* C23: a run with --import-only and without --config does not exit; it goes
\* on to import the users of the file.
C23_ImportOnlyNeedsNoConfig ==
    ~(args.import_only /\ ~args.config /\ mpc = "exited")

\* C29: the export loop, once entered, is left again, by return or by exit.
C29_ExportLoopEnds ==
    (mpc = "exporting") ~> (mpc # "exporting")

\* -------------------------------------------------------- claims: rate limiter
\* C22: with limit 5, a call is allowed exactly when it is among the first
\* five calls for its key in the current window, and the call that opens a
\* window starts from a fresh count.
C22_FiveAllowedPerWindow ==
    lresp.key \in LimiterKeys =>
        /\ lresp.allowed <=> windowCalls[lresp.key] <= SignupLimit
        /\ windowCalls[lresp.key] = 1 => lresp.remaining = SignupLimit - 1

\* a sixth call was refused, and the first call of the next window is allowed
C22_RefusedThenFreshWindow ==
    /\ lresp.key \in LimiterKeys
    /\ refused[lresp.key]
    /\ windowCalls[lresp.key] = 1
    /\ lresp.allowed

====
